---- MODULE Spec2Model ----
(***************************************************************************)
(* Deterministic maize price forecasting (forecasting.py).                 *)
(*                                                                         *)
(* Prices are float64 in the program.  Here a price is an integer number   *)
(* of millionths of a shilling, so that price * seasonal * county factor   *)
(* and min * 0.9 / max * 1.1 are exact for prices with two decimals; NaN   *)
(* is a value of its own.  Factors are held in hundredths (1.15 = 115).    *)
(* Dates are integers (already parsed timestamps).                         *)
(***************************************************************************)
EXTENDS Integers, Sequences, FiniteSets, TLC

VARIABLES
    files,                \* what is on disk: "ok", "missing", "unparseable", "missing_column"
    csv_main,             \* rows of agriBORA_maize_prices.csv
    csv_recent,           \* rows of agriBORA_maize_prices_weeks_46_to_51.csv
    seasonal_adjustments, \* the module-level dict SEASONAL_ADJUSTMENTS
    county_factors,       \* the module-level dict COUNTY_FACTORS
    pc,                   \* position of the script run
    agribora,             \* DataFrame returned by load_data (history)
    agribora_recent,      \* DataFrame returned by load_data (recent window)
    recent_prices,        \* dict returned by get_recent_prices
    week_number,          \* argument of the running / last forecast_prices call
    i,                    \* forecast_prices: index of the loop over TARGET_COUNTIES
    predictions,          \* forecast_prices: the local list of rows
    forecast_df,          \* main: the DataFrame forecast_prices returned (<<>>: unbound)
    err,                  \* the exception that ended the run, if any
    ui,                   \* st.error lines shown by load_data
    ref                   \* history variable: one earlier call's week and result, and
                          \* whether a later call for that week has returned

vars == <<files, csv_main, csv_recent, seasonal_adjustments, county_factors, pc,
          agribora, agribora_recent, recent_prices, week_number, i, predictions,
          forecast_df, err, ui, ref>>

(***************************************************************************)
(* Configuration                                                           *)
(***************************************************************************)
TARGET_COUNTIES == <<"Kiambu", "Kirinyaga", "Mombasa", "Nairobi", "Uasin-Gishu">>

TargetSet == {TARGET_COUNTIES[k] : k \in 1..Len(TARGET_COUNTIES)}

SEASONAL_ADJUSTMENTS == (50 :> 110) @@ (51 :> 115) @@ (52 :> 120) @@ (1 :> 115) @@ (2 :> 110)

COUNTY_FACTORS ==
    ("Kiambu" :> 100) @@ ("Kirinyaga" :> 98) @@ ("Mombasa" :> 95) @@
    ("Nairobi" :> 100) @@ ("Uasin-Gishu" :> 105)

\* 1.0, the default of SEASONAL_ADJUSTMENTS.get(week_number, 1.0), in hundredths
DEFAULT_SEASONAL == 100
\* hist["WholeSale"].min() * 0.9 and .max() * 1.1, in hundredths
LOWER_TOLERANCE == 90
UPPER_TOLERANCE == 110
\* round(price, 2): one hundredth of a shilling, in millionths
Hundredth == 10000

(***************************************************************************)
(* float64 arithmetic on the modelled values                               *)
(***************************************************************************)
\* NaN: the minimum / maximum of an empty Series
NaN == -1

\* x * f for a factor f given in hundredths; NaN * f = NaN
Times(x, f) == IF x = NaN THEN NaN ELSE (x * f) \div 100

\* a < b on floats: every comparison with NaN is False
Lt(a, b) == a # NaN /\ b # NaN /\ a < b

\* Python's built-in min(a, b): the first argument, unless the second is smaller
PyMin(a, b) == IF Lt(b, a) THEN b ELSE a

\* Python's built-in max(a, b): the first argument, unless the second is larger
PyMax(a, b) == IF Lt(a, b) THEN b ELSE a

\* a variant of Round2 that rounds halves away from zero
RoundHalfAway(x) ==
    IF x = NaN THEN NaN
    ELSE LET q == x \div Hundredth
             r == x % Hundredth
         IN  IF 2 * r >= Hundredth THEN (q + 1) * Hundredth ELSE q * Hundredth

\* round(price, 2): to the nearest hundredth, a half to the even hundredth
Round2(x) ==
    IF x = NaN THEN NaN
    ELSE LET q == x \div Hundredth
             r == x % Hundredth
         IN  IF 2 * r > Hundredth \/ (2 * r = Hundredth /\ q % 2 = 1)
             THEN (q + 1) * Hundredth
             ELSE q * Hundredth

(***************************************************************************)
(* DataFrame helpers                                                       *)
(***************************************************************************)
\* df[df["County"] == county]["WholeSale"] as the set of its values
WholeSaleOf(df, county) == {df[k].WholeSale : k \in {j \in 1..Len(df) : df[j].County = county}}

\* Series.min(): NaN on an empty Series
SeriesMin(S) == IF S = {} THEN NaN ELSE CHOOSE x \in S : \A y \in S : x <= y

\* Series.max(): NaN on an empty Series
SeriesMax(S) == IF S = {} THEN NaN ELSE CHOOSE x \in S : \A y \in S : x >= y

\* df[df["County"].isin(TARGET_COUNTIES)]
FilterTargets(df) == SelectSeq(df, LAMBDA r : r.County \in TargetSet)

(***************************************************************************)
(* get_recent_prices                                                       *)
(***************************************************************************)
Counties(df) == {df[k].County : k \in 1..Len(df)}

\* The row orders sort_values("Date") may leave: ascending by Date.  The
\* default kind is quicksort, which is not stable, so rows with equal
\* dates may come out in either order.
SortOrders(df) ==
    {p \in Permutations(1..Len(df)) :
        \A a, b \in 1..Len(df) : a < b => df[p[a]].Date <= df[p[b]].Date}

Reorder(df, p) == [k \in 1..Len(df) |-> df[p[k]]]

\* .groupby("County").tail(1): the last row of the county
Tail1(df, county) ==
    df[CHOOSE k \in 1..Len(df) :
          /\ df[k].County = county
          /\ \A j \in 1..Len(df) : df[j].County = county => j <= k]

\* .groupby("County").head(1): the first row of the county
Head1(df, county) ==
    df[CHOOSE k \in 1..Len(df) :
          /\ df[k].County = county
          /\ \A j \in 1..Len(df) : df[j].County = county => k <= j]

\* .set_index("County")["WholeSale"].to_dict() of the per-county last rows
TailDict(df) == [c \in Counties(df) |-> Tail1(df, c).WholeSale]

\* a variant of get_recent_prices that keeps the first row of each county
get_recent_prices_head(df) ==
    {[c \in Counties(df) |-> Head1(Reorder(df, p), c).WholeSale] : p \in SortOrders(df)}

\* the dicts get_recent_prices(agribora_recent) may return
get_recent_prices(df) == {TailDict(Reorder(df, p)) : p \in SortOrders(df)}

(***************************************************************************)
(* forecast_prices: the body of the loop                                   *)
(***************************************************************************)
\* a variant of SeasonalFactor whose default is the smallest listed factor
SeasonalFactorDefaultListed(week) ==
    IF week \in DOMAIN seasonal_adjustments THEN seasonal_adjustments[week] ELSE 110

\* SEASONAL_ADJUSTMENTS.get(week_number, 1.0)
SeasonalFactor(week) ==
    IF week \in DOMAIN seasonal_adjustments
    THEN seasonal_adjustments[week]
    ELSE DEFAULT_SEASONAL

\* hist["WholeSale"].min() * 0.9
MinPrice(county) == Times(SeriesMin(WholeSaleOf(agribora, county)), LOWER_TOLERANCE)

\* hist["WholeSale"].max() * 1.1
MaxPrice(county) == Times(SeriesMax(WholeSaleOf(agribora, county)), UPPER_TOLERANCE)

\* base_price * seasonal_factor * county_factor
RawPrice(county, week) ==
    Times(Times(recent_prices[county], SeasonalFactor(week)), county_factors[county])

\* a variant of Clamp that leaves the price as it is
ClampNone(lo, hi, x) == x

\* max(min_price, min(max_price, price))
Clamp(lo, hi, x) == PyMax(lo, PyMin(hi, x))

\* a variant of ForecastPrice that rounds the raw price first and clamps last
ForecastPriceRoundFirst(county, week) ==
    Clamp(MinPrice(county), MaxPrice(county), Round2(RawPrice(county, week)))

\* the price of one row: clamp, then round(price, 2)
ForecastPrice(county, week) ==
    Round2(Clamp(MinPrice(county), MaxPrice(county), RawPrice(county, week)))

Row(county, price) == [County |-> county, Predicted_Wholesale_Price_KES |-> price]

(***************************************************************************)
(* Inputs: the contents of the two CSV files and the configuration         *)
(***************************************************************************)
MaxHist == 2      \* most history rows per county in the price sweep
MaxRecent == 3    \* most rows of the recent-window file in the row sweep

Cents(c) == c * Hundredth

Prices == {Cents(30), Cents(150), Cents(152), Cents(265), Cents(285)}

Weeks == {1, 2, 3, 50, 51, 52}

Dates == {1, 2}

NoCounty == "-"

CsvRow(county, date, price) == [County |-> county, Date |-> date, WholeSale |-> price]

Reverse(s) == [k \in 1..Len(s) |-> s[Len(s) + 1 - k]]

\* every target county with the same history prices hs
UniformHistory(hs) ==
    [k \in 1..(Len(TARGET_COUNTIES) * Len(hs)) |->
        CsvRow(TARGET_COUNTIES[((k - 1) \div Len(hs)) + 1],
               ((k - 1) % Len(hs)) + 1,
               hs[((k - 1) % Len(hs)) + 1])]

\* every target county with the same latest price b
UniformRecent(b) == [k \in 1..Len(TARGET_COUNTIES) |-> CsvRow(TARGET_COUNTIES[k], 2, b)]

BaselineHistory == UniformHistory(<<Cents(285), Cents(265)>>) \o <<CsvRow("Nakuru", 1, Cents(30))>>

BaselineRecent ==
    << CsvRow("Nakuru", 2, Cents(285)),
       CsvRow("Kiambu", 1, Cents(30)),
       CsvRow("Kiambu", 2, Cents(150)),
       CsvRow("Kirinyaga", 2, Cents(265)),
       CsvRow("Mombasa", 2, Cents(285)),
       CsvRow("Nairobi", 2, Cents(30)),
       CsvRow("Uasin-Gishu", 2, Cents(150)) >>

Without(df, county) == SelectSeq(df, LAMBDA r : r.County # county)

NoError == [type |-> "none", key |-> ""]

NoRef == [week |-> 0, rows |-> <<>>, repeated |-> FALSE]

InitRun ==
    /\ seasonal_adjustments = SEASONAL_ADJUSTMENTS
    /\ pc = "start"
    /\ agribora = <<>>
    /\ agribora_recent = <<>>
    /\ recent_prices = <<>>
    /\ week_number = 0
    /\ i = 0
    /\ predictions = <<>>
    /\ forecast_df = <<>>
    /\ err = NoError
    /\ ui = <<>>
    /\ ref = NoRef

\* a source file is absent or cannot be used
InitBadFiles ==
    /\ files \in {"missing", "unparseable", "missing_column"}
    /\ csv_main = <<>>
    /\ csv_recent = <<>>
    /\ county_factors = COUNTY_FACTORS

\* presence sweep: one county may be absent from the history, from the recent
\* window and from the county factors; the files may list the counties in
\* reverse order
InitPresence ==
    /\ files = "ok"
    /\ \E h \in TargetSet \cup {NoCounty}, r \in TargetSet \cup {NoCounty},
          f \in TargetSet \cup {NoCounty}, rev \in BOOLEAN :
          /\ csv_main = IF rev THEN Reverse(Without(BaselineHistory, h))
                               ELSE Without(BaselineHistory, h)
          /\ csv_recent = IF rev THEN Reverse(Without(BaselineRecent, r))
                                 ELSE Without(BaselineRecent, r)
          /\ county_factors = [c \in TargetSet \ {f} |-> COUNTY_FACTORS[c]]

\* price sweep: history prices and latest price drawn from Prices
InitPrices ==
    /\ files = "ok"
    /\ \E n \in 1..MaxHist : \E hs \in [1..n -> Prices] : csv_main = UniformHistory(hs)
    /\ \E b \in Prices : csv_recent = UniformRecent(b)
    /\ county_factors = COUNTY_FACTORS

\* row sweep: the recent-window file holds any rows of two counties
InitRecentRows ==
    /\ files = "ok"
    /\ csv_main = BaselineHistory
    /\ \E n \in 1..MaxRecent :
          csv_recent \in [1..n -> {CsvRow(c, d, w) : c \in {"Kiambu", "Mombasa"},
                                                    d \in Dates,
                                                    w \in {Cents(30), Cents(150)}}]
    /\ county_factors = COUNTY_FACTORS

Init == InitRun /\ (InitBadFiles \/ InitPresence \/ InitPrices \/ InitRecentRows)

(***************************************************************************)
(* load_data                                                               *)
(***************************************************************************)
GUIDANCE ==
    << "Error: CSV files not found. Please ensure the following files are in the same directory:",
       "1. agriBORA_maize_prices.csv",
       "2. agriBORA_maize_prices_weeks_46_to_51.csv" >>

\* both files read and parsed: keep the rows of the target counties
LoadData ==
    /\ pc = "start"
    /\ files = "ok"
    /\ agribora' = FilterTargets(csv_main)
    /\ agribora_recent' = FilterTargets(csv_recent)
    /\ pc' = "loaded"
    /\ UNCHANGED <<files, csv_main, csv_recent, seasonal_adjustments, county_factors,
                   recent_prices, week_number, i, predictions, forecast_df, err, ui, ref>>

\* except FileNotFoundError: three st.error lines, then st.stop()
LoadDataNotFound ==
    /\ pc = "start"
    /\ files = "missing"
    /\ ui' = GUIDANCE
    /\ pc' = "stopped"
    /\ UNCHANGED <<files, csv_main, csv_recent, seasonal_adjustments, county_factors,
                   agribora, agribora_recent, recent_prices, week_number, i,
                   predictions, forecast_df, err, ref>>

\* read_csv raises a parser error, or ["Date"] / ["County"] raises KeyError:
\* neither is a FileNotFoundError, so the exception leaves load_data and main
LoadDataMalformed ==
    /\ pc = "start"
    /\ files \in {"unparseable", "missing_column"}
    /\ err' = [type |-> IF files = "unparseable" THEN "ParserError" ELSE "KeyError",
               key |-> IF files = "unparseable" THEN "" ELSE "Date"]
    /\ pc' = "crashed"
    /\ UNCHANGED <<files, csv_main, csv_recent, seasonal_adjustments, county_factors,
                   agribora, agribora_recent, recent_prices, week_number, i,
                   predictions, forecast_df, ui, ref>>

(***************************************************************************)
(* main                                                                    *)
(***************************************************************************)
\* recent_prices = get_recent_prices(agribora_recent)
ExtractRecent ==
    /\ pc = "loaded"
    /\ recent_prices' \in get_recent_prices(agribora_recent)
    /\ pc' = "ready"
    /\ UNCHANGED <<files, csv_main, csv_recent, seasonal_adjustments, county_factors,
                   agribora, agribora_recent, week_number, i, predictions,
                   forecast_df, err, ui, ref>>

\* forecast_prices(agribora, recent_prices, week_number) is entered:
\* predictions = [], the loop starts at the first target county
Call ==
    /\ pc \in {"ready", "failed"}
    /\ \E w \in Weeks : week_number' = w
    /\ predictions' = <<>>
    /\ i' = 1
    /\ forecast_df' = <<>>
    /\ err' = NoError
    /\ pc' = "loop"
    /\ UNCHANGED <<files, csv_main, csv_recent, seasonal_adjustments, county_factors,
                   agribora, agribora_recent, recent_prices, ui, ref>>

\* a variant of Append that puts the new row first
Prepend(rows, row) == <<row>> \o rows

\* predictions.append({...})
AppendRow(rows, row) == Append(rows, row)

\* a variant of LoopStep that skips a county it has no price or factor for
LoopStepSkipMissing ==
    /\ pc = "loop"
    /\ i <= Len(TARGET_COUNTIES)
    /\ LET county == TARGET_COUNTIES[i]
       IN  /\ predictions' =
                 IF county \in DOMAIN recent_prices /\ county \in DOMAIN county_factors
                 THEN AppendRow(predictions, Row(county, ForecastPrice(county, week_number)))
                 ELSE predictions
           /\ i' = i + 1
    /\ UNCHANGED <<files, csv_main, csv_recent, seasonal_adjustments, county_factors,
                   agribora, agribora_recent, recent_prices, week_number,
                   forecast_df, err, ui, ref, pc>>

\* one pass of "for county in TARGET_COUNTIES": recent_prices[county] and
\* COUNTY_FACTORS[county] raise KeyError, which leaves forecast_prices with
\* its local list; otherwise the county's row is appended
LoopStep ==
    /\ pc = "loop"
    /\ i <= Len(TARGET_COUNTIES)
    /\ LET county == TARGET_COUNTIES[i]
       IN  IF county \notin DOMAIN recent_prices \/ county \notin DOMAIN county_factors
           THEN /\ err' = [type |-> "KeyError", key |-> county]
                /\ predictions' = <<>>
                /\ pc' = "failed"
                /\ UNCHANGED i
           ELSE /\ predictions' =
                      AppendRow(predictions, Row(county, ForecastPrice(county, week_number)))
                /\ i' = i + 1
                /\ UNCHANGED <<err, pc>>
    /\ UNCHANGED <<files, csv_main, csv_recent, seasonal_adjustments, county_factors,
                   agribora, agribora_recent, recent_prices, week_number,
                   forecast_df, ui, ref>>

\* return pd.DataFrame(predictions)
Return ==
    /\ pc = "loop"
    /\ i = Len(TARGET_COUNTIES) + 1
    /\ forecast_df' = predictions
    /\ predictions' = <<>>
    /\ pc' = "returned"
    /\ ref' \in IF ref = NoRef
                THEN {NoRef, [week |-> week_number, rows |-> predictions, repeated |-> FALSE]}
                ELSE IF ref.week = week_number
                     THEN {[ref EXCEPT !.repeated = TRUE]}
                     ELSE {ref}
    /\ UNCHANGED <<files, csv_main, csv_recent, seasonal_adjustments, county_factors,
                   agribora, agribora_recent, recent_prices, week_number, i, err, ui>>

\* ((predicted - current) / current * 100).round(2), in hundredths of a percent
ChangePercent(predicted, current) ==
    IF predicted = NaN \/ current = NaN \/ current = 0 THEN NaN
    ELSE LET n == ((predicted - current) \div Hundredth) * 10000
             d == current \div Hundredth
             q == n \div d
             r == n % d
         IN  IF 2 * r > d \/ (2 * r = d /\ q % 2 = 1) THEN q + 1 ELSE q

\* forecast_df["Current_Price"] = ...; forecast_df["Change_%"] = ...
WithChange(df, prices) ==
    [k \in 1..Len(df) |->
        [County |-> df[k].County,
         Predicted_Wholesale_Price_KES |-> df[k].Predicted_Wholesale_Price_KES,
         Current_Price |-> prices[df[k].County],
         Change |-> ChangePercent(df[k].Predicted_Wholesale_Price_KES, prices[df[k].County])]]

\* a variant of Present that stores the forecast as the new current price
PresentOverwritingPrices ==
    /\ pc = "returned"
    /\ forecast_df' = WithChange(forecast_df, recent_prices)
    /\ recent_prices' = [c \in DOMAIN recent_prices |->
                            LET k == CHOOSE j \in 1..Len(forecast_df) : forecast_df[j].County = c
                            IN  forecast_df[k].Predicted_Wholesale_Price_KES]
    /\ pc' = "ready"
    /\ UNCHANGED <<files, csv_main, csv_recent, seasonal_adjustments, county_factors,
                   agribora, agribora_recent, week_number, i, predictions, err, ui, ref>>

\* the table, the chart and the two added columns of the returned frame
Present ==
    /\ pc = "returned"
    /\ forecast_df' = WithChange(forecast_df, recent_prices)
    /\ pc' = "ready"
    /\ UNCHANGED <<files, csv_main, csv_recent, seasonal_adjustments, county_factors,
                   agribora, agribora_recent, recent_prices, week_number, i,
                   predictions, err, ui, ref>>

Next ==
    \/ LoadData
    \/ LoadDataNotFound
    \/ LoadDataMalformed
    \/ ExtractRecent
    \/ Call
    \/ LoopStep
    \/ Return
    \/ Present

Spec == Init /\ [][Next]_vars

(***************************************************************************)
(* Properties                                                              *)
(***************************************************************************)
Returned == pc = "returned"

RowCounty(k) == forecast_df[k].County

RowPrice(k) == forecast_df[k].Predicted_Wholesale_Price_KES

HasHistory(county) == WholeSaleOf(agribora, county) # {}

Clamped(county) == Clamp(MinPrice(county), MaxPrice(county), RawPrice(county, week_number))

IsHalf(x) == 2 * (x % Hundredth) = Hundredth

\* target counties without a recent price or without a county factor
MissingTargets == {c \in TargetSet : c \notin DOMAIN recent_prices \/ c \notin DOMAIN county_factors}

\* C1 as stated: every returned price of a county with history lies in
\* [min * 0.9, max * 1.1].
C1_InBounds ==
    Returned =>
        \A k \in 1..Len(forecast_df) :
            HasHistory(RowCounty(k)) =>
                /\ MinPrice(RowCounty(k)) <= RowPrice(k)
                /\ RowPrice(k) <= MaxPrice(RowCounty(k))

\* C1 amended: every returned price of a county with history lies within
\* half a hundredth of [min * 0.9, max * 1.1].
C1_WithinHalfHundredth ==
    Returned =>
        \A k \in 1..Len(forecast_df) :
            HasHistory(RowCounty(k)) =>
                /\ 2 * (MinPrice(RowCounty(k)) - RowPrice(k)) <= Hundredth
                /\ 2 * (RowPrice(k) - MaxPrice(RowCounty(k))) <= Hundredth

\* a returned frame with one price below its lower bound and one above its upper bound
C1_Witness ==
    /\ Returned
    /\ \E k \in 1..Len(forecast_df) :
          HasHistory(RowCounty(k)) /\ RowPrice(k) < MinPrice(RowCounty(k))
    /\ \E k \in 1..Len(forecast_df) :
          HasHistory(RowCounty(k)) /\ RowPrice(k) > MaxPrice(RowCounty(k))

\* C2 as stated: a raw price above the upper bound is returned as the upper
\* bound itself, one below the lower bound as the lower bound itself.
C2_ClampExact ==
    Returned =>
        \A k \in 1..Len(forecast_df) :
            LET c == RowCounty(k)
            IN  /\ Lt(MaxPrice(c), RawPrice(c, week_number)) => RowPrice(k) = MaxPrice(c)
                /\ Lt(RawPrice(c, week_number), MinPrice(c)) => RowPrice(k) = MinPrice(c)

\* C2 amended: a raw price above the upper bound is returned as the upper
\* bound rounded to two decimals, one below the lower bound as the lower
\* bound rounded to two decimals.
C2_ClampRounded ==
    Returned =>
        \A k \in 1..Len(forecast_df) :
            LET c == RowCounty(k)
            IN  /\ Lt(MaxPrice(c), RawPrice(c, week_number)) => RowPrice(k) = Round2(MaxPrice(c))
                /\ Lt(RawPrice(c, week_number), MinPrice(c)) => RowPrice(k) = Round2(MinPrice(c))

\* a returned frame with a raw price above an upper bound that has three
\* decimals, and a raw price below a lower bound that has three decimals
C2_Witness ==
    /\ Returned
    /\ \E k \in 1..Len(forecast_df) :
          /\ Lt(MaxPrice(RowCounty(k)), RawPrice(RowCounty(k), week_number))
          /\ MaxPrice(RowCounty(k)) % Hundredth # 0
    /\ \E k \in 1..Len(forecast_df) :
          /\ Lt(RawPrice(RowCounty(k), week_number), MinPrice(RowCounty(k)))
          /\ MinPrice(RowCounty(k)) % Hundredth # 0

\* C3 as stated: no price, and never NaN, is returned for a target county
\* that has no history.
C3_NoRowWithoutHistory ==
    Returned =>
        \A k \in 1..Len(forecast_df) : HasHistory(RowCounty(k)) /\ RowPrice(k) # NaN

\* C4: a call that meets a target county without recent price or county
\* factor ends in KeyError for that county and returns no row; a frame is
\* returned only when no target county lacks either, and then it has a row
\* for every target county.
C4_AllOrNothing ==
    /\ pc = "failed" =>
          /\ forecast_df = <<>>
          /\ predictions = <<>>
          /\ err.type = "KeyError"
          /\ err.key \in MissingTargets
    /\ pc = "loop" => i = Len(predictions) + 1
    /\ MissingTargets # {} => forecast_df = <<>>
    /\ Returned =>
          /\ MissingTargets = {}
          /\ Len(forecast_df) = Len(TARGET_COUNTIES)
          /\ {RowCounty(k) : k \in 1..Len(forecast_df)} = TargetSet

\* a call that failed at the third county or later, after rows were computed
C4_Witness == pc = "failed" /\ i >= 3 /\ forecast_df = <<>>

\* C5 as stated: a returned price has two decimals, and a clamped price
\* halfway between two hundredths is returned as the upper one.
C5_HalfAwayFromZero ==
    Returned =>
        \A k \in 1..Len(forecast_df) :
            HasHistory(RowCounty(k)) =>
                /\ RowPrice(k) % Hundredth = 0
                /\ IsHalf(Clamped(RowCounty(k))) =>
                       RowPrice(k) = Clamped(RowCounty(k)) + Hundredth \div 2

\* C5 amended: a returned price has two decimals and is a hundredth nearest
\* to the clamped price; a clamped price halfway between two hundredths is
\* returned as the even one.
C5_HalfToEven ==
    Returned =>
        \A k \in 1..Len(forecast_df) :
            HasHistory(RowCounty(k)) =>
                /\ RowPrice(k) % Hundredth = 0
                /\ 2 * (RowPrice(k) - Clamped(RowCounty(k))) <= Hundredth
                /\ 2 * (Clamped(RowCounty(k)) - RowPrice(k)) <= Hundredth
                /\ IsHalf(Clamped(RowCounty(k))) => (RowPrice(k) \div Hundredth) % 2 = 0

\* a returned price whose clamped price was halfway, the lower hundredth being even
C5_Witness ==
    /\ Returned
    /\ \E k \in 1..Len(forecast_df) :
          /\ HasHistory(RowCounty(k))
          /\ IsHalf(Clamped(RowCounty(k)))
          /\ RowPrice(k) < Clamped(RowCounty(k))

Extracted == pc \in {"ready", "loop", "returned", "failed"}

RowsOfCounty(df, county) == {k \in 1..Len(df) : df[k].County = county}

\* the rows of the county that carry its latest date
LatestRows(df, county) ==
    {k \in RowsOfCounty(df, county) :
        \A j \in RowsOfCounty(df, county) : df[j].Date <= df[k].Date}

\* the last row, in input order, among the county's rows with its latest date
LastLatestRow(df, county) ==
    CHOOSE k \in LatestRows(df, county) : \A j \in LatestRows(df, county) : j <= k

C7_CanonicalOrder ==
    (pc \in {"returned", "ready"} /\ forecast_df # <<>>) =>
        [k \in 1..Len(forecast_df) |-> RowCounty(k)] = TARGET_COUNTIES

\* a frame returned from files that list the counties in reverse order
C7_Witness ==
    /\ Returned
    /\ agribora[1].County = "Uasin-Gishu"
    /\ agribora_recent[1].County = "Uasin-Gishu"
    /\ Len(forecast_df) = Len(TARGET_COUNTIES)

\* C8: once loaded, the history, the recent window, the recent prices and
\* the two factor tables never change, and a call returns the frame that a
\* recorded earlier call for the same week returned.
C8_Stateless ==
    /\ []((Returned /\ ref.week = week_number) => forecast_df = ref.rows)
    /\ [][Extracted =>
            /\ agribora' = agribora
            /\ agribora_recent' = agribora_recent
            /\ recent_prices' = recent_prices
            /\ seasonal_adjustments' = seasonal_adjustments
            /\ county_factors' = county_factors]_vars

\* a later call for the recorded week has returned
C8_Witness == Returned /\ ref.repeated /\ ref.week = week_number /\ Len(forecast_df) > 0

\* the price computed with the seasonal factor fixed at 1.0
NeutralPrice(county) ==
    Round2(PyMax(MinPrice(county),
                 PyMin(MaxPrice(county), Times(recent_prices[county], county_factors[county]))))

\* C9: for a week that is no key of SEASONAL_ADJUSTMENTS every returned price
\* is the one computed with the seasonal factor 1.0, and such a call fails
\* only for a county without recent price or county factor.
C9_DefaultNeutral ==
    week_number \notin DOMAIN SEASONAL_ADJUSTMENTS =>
        /\ Returned => \A k \in 1..Len(forecast_df) : RowPrice(k) = NeutralPrice(RowCounty(k))
        /\ pc = "failed" => err.key \in MissingTargets

\* a frame returned for week 3 holding a price that was not clamped
C9_Witness ==
    /\ Returned
    /\ week_number = 3
    /\ \E k \in 1..Len(forecast_df) :
          /\ Lt(MinPrice(RowCounty(k)), RawPrice(RowCounty(k), week_number))
          /\ Lt(RawPrice(RowCounty(k), week_number), MaxPrice(RowCounty(k)))

\* C10 as stated: when a source file is missing or malformed, load_data
\* shows the guidance naming the two files and stops, returning no data.
C10_GuidanceOnEveryLoadFailure ==
    (files # "ok" /\ pc # "start") =>
        /\ pc = "stopped"
        /\ ui = GUIDANCE
        /\ agribora = <<>>
        /\ agribora_recent = <<>>
        /\ forecast_df = <<>>

====
